---- MODULE Spec2Model ----
(***************************************************************************)
(* The speak arbitrator and session state of the opencode-voice plugin     *)
(* (src/index.ts).  One state variable per field of the plugin's `state`   *)
(* object, the set of speakSession invocations that are suspended at an    *)
(* await, the host's message history, and a log of the requests made.      *)
(* Every action is one synchronous stretch of a handler: from the event's  *)
(* delivery (or the return of an awaited call) to the next await.          *)
(***************************************************************************)
EXTENDS Integers, Sequences, FiniteSets, TLC

(* ------------------------------ bounds -------------------------------- *)

\* speakSession calls made by event handlers (session.idle, voice.speak)
MaxReq == 3

\* events and commands handled that make no speakSession call
MaxEvents == 2

\* events and commands handled altogether
MaxDeliveries == 4

\* assistant messages with speakable text that a session's history receives
MaxMsg == 1

\* messages of any kind in the history of a session (ScanSpec)
MaxHist == 2

Sessions == {"s1", "s2"}

NoSession == "none"

\* message id 0: no message (undefined)
NoMessage == 0

\* the id of a message is its place in its session's history
MessageIDs == 1..MaxHist

Reasons == {"idle", "manual"}

Modes == {"continuous", "push-to-talk"}

(* --------------------------- configuration ---------------------------- *)

\* contents of voice.json as parsed (VoiceConfig): a record that holds only
\* the fields the file gives
EmptyFile == [k \in {} |-> TRUE]

ProjectFile == [voiceId |-> "voice"]

\* the same settings with the default of `enabled` written out
ProjectFileExplicit == [voiceId |-> "voice", enabled |-> TRUE]

GlobalFile ==
    [ enabled |-> FALSE, mode |-> "push-to-talk", voiceId |-> "voice",
      player |-> "afplay" ]

\* what loadVoiceConfig can return
LoadedConfigs ==
    { [config |-> ProjectFile, source |-> "project"],
      [config |-> ProjectFileExplicit, source |-> "project"],
      [config |-> GlobalFile, source |-> "global"],
      [config |-> EmptyFile, source |-> "none"] }

\* what loadVoiceConfig returns to the reloadConfig of line 334 (the files
\* present when the plugin starts); the others are loaded by later reloads
StartupConfigs ==
    { [config |-> ProjectFile, source |-> "project"],
      [config |-> GlobalFile, source |-> "global"] }

Has(partial, k) == k \in DOMAIN partial

\* defaultConfig: `??` keeps a given value and fills a missing one.  player is
\* player.cmd.  The fields that no voice.json of this model gives keep their
\* defaults in every snapshot and are left out of the record: language and
\* modelId (undefined), outputFormat, player.args and maxChars
defaultConfig(partial) ==
    [ enabled |-> IF Has(partial, "enabled") THEN partial.enabled ELSE TRUE,
      mode    |-> IF Has(partial, "mode") THEN partial.mode ELSE "continuous",
      voiceId |-> IF Has(partial, "voiceId") THEN partial.voiceId ELSE "",
      player  |-> IF Has(partial, "player") THEN partial.player ELSE "mpv" ]

\* the defaults of lines 55, 100 and 102 as fingerprint writes them
DefaultFields ==
    [ language |-> "", modelId |-> "", outputFormat |-> "mp3_44100_128",
      playerArgs |-> "--no-terminal|--force-window=no|--keep-open=no",
      maxChars |-> "3000" ]

\* fingerprint (lines 178-192): the fields joined with ";"
fingerprint(cfg, source) ==
    source \o ";" \o (IF cfg.enabled THEN "1" ELSE "0") \o ";" \o cfg.mode \o ";"
      \o DefaultFields.language \o ";" \o cfg.voiceId \o ";"
      \o DefaultFields.modelId \o ";" \o DefaultFields.outputFormat \o ";"
      \o cfg.player \o ";" \o DefaultFields.playerArgs \o ";" \o DefaultFields.maxChars

(* --------------------------- text extraction -------------------------- *)

\* a text is the sequence of its characters; Tick is the backtick
Tick == "tick"

Fence == << Tick, Tick, Tick >>

Code == << "c" >>

Prose == << "a" >>

\* text parts, ignored text parts and a part of another type (Part, lines 37-43)
TextPart(text) == [type |-> "text", text |-> text, ignored |-> FALSE]

IgnoredPart(text) == [type |-> "text", text |-> text, ignored |-> TRUE]

ToolPart == [type |-> "tool", text |-> << >>, ignored |-> FALSE]

Message(role, parts) == [role |-> role, parts |-> parts]

\* the messages of this model, by name; a history holds the names
\* messages at which the newest-first scan must stop: plain text, text after a
\* tool part and a fenced block, text before inline code, a link
EligibleMessages == { "prose", "toolFenceProse", "proseInline", "link" }

\* messages the scan must skip: a user message, and assistant messages with
\* only a fenced block (in one part or split over two), only inline code, only
\* a tool part, only ignored text, only white space and an empty text, no part
SkippedMessages ==
    { "user", "fence", "splitFence", "inline", "tool", "ignored", "blank", "empty" }

\* MessageWithParts (lines 45-48) of each
Content ==
    [ m \in EligibleMessages \cup SkippedMessages |->
        CASE m = "prose" -> Message("assistant", << TextPart(Prose) >>)
          [] m = "toolFenceProse" ->
                 Message("assistant",
                         << ToolPart, TextPart(Fence \o Code \o Fence \o << " " >>),
                            TextPart(Prose) >>)
          [] m = "proseInline" ->
                 Message("assistant",
                         << TextPart(Prose \o << " ", Tick >> \o Code \o << Tick >>) >>)
          [] m = "link" ->
                 Message("assistant",
                         << TextPart(<< "[" >> \o Prose \o << "]", "(" >> \o Code
                                       \o << ")" >>) >>)
          [] m = "user" -> Message("user", << TextPart(Prose) >>)
          [] m = "fence" -> Message("assistant", << TextPart(Fence \o Code \o Fence) >>)
          [] m = "splitFence" ->
                 Message("assistant", << TextPart(Fence \o Code), TextPart(Fence) >>)
          [] m = "inline" ->
                 Message("assistant", << TextPart(<< Tick >> \o Code \o << Tick >>) >>)
          [] m = "tool" -> Message("assistant", << ToolPart >>)
          [] m = "ignored" -> Message("assistant", << IgnoredPart(Prose) >>)
          [] m = "blank" ->
                 Message("assistant", << TextPart(<< " " >>), TextPart(<< >>) >>)
          [] m = "empty" -> Message("assistant", << >>) ]

\* String.prototype.trim, white space being " "
RECURSIVE trimStart(_)
trimStart(text) ==
    IF text # << >> /\ Head(text) = " " THEN trimStart(Tail(text)) ELSE text

RECURSIVE trimEnd(_)
trimEnd(text) ==
    IF text # << >> /\ text[Len(text)] = " "
    THEN trimEnd(SubSeq(text, 1, Len(text) - 1))
    ELSE text

trim(text) == trimEnd(trimStart(text))

RECURSIVE joinChunks(_)
\* joinTextParts (lines 64-75): the texts of the text parts that are not
\* ignored and not empty, joined with no separator and trimmed
joinChunks(parts) ==
    IF parts = << >> THEN << >>
    ELSE LET part == Head(parts)
         IN  IF part.type # "text" \/ part.ignored \/ part.text = << >>
             THEN joinChunks(Tail(parts))
             ELSE part.text \o joinChunks(Tail(parts))

joinTextParts(parts) == trim(joinChunks(parts))

\* the pattern stands in the text at place i
At(text, i, pattern) ==
    /\ i + Len(pattern) - 1 <= Len(text)
    /\ \A k \in 1..Len(pattern) : text[i + k - 1] = pattern[k]

\* the first place from i on where the pattern stands, 0 if none
First(text, i, pattern) ==
    LET places == { j \in i..Len(text) : At(text, j, pattern) }
    IN  IF places = {} THEN 0
        ELSE CHOOSE j \in places : \A k \in places : j <= k

RECURSIVE withoutCodeBlocks(_, _)
\* line 78: a fence, anything up to the next fence (the shortest match), and
\* that fence are replaced by a space, from place i on
withoutCodeBlocks(text, i) ==
    IF i > Len(text) THEN << >>
    ELSE LET close == IF At(text, i, Fence) THEN First(text, i + 3, Fence) ELSE 0
         IN  IF close # 0
             THEN << " " >> \o withoutCodeBlocks(text, close + 3)
             ELSE << text[i] >> \o withoutCodeBlocks(text, i + 1)

RECURSIVE withoutInlineCode(_, _)
\* line 79: a backtick, anything but backticks, and a backtick are replaced by
\* a space, from place i on
withoutInlineCode(text, i) ==
    IF i > Len(text) THEN << >>
    ELSE LET close == IF text[i] = Tick THEN First(text, i + 1, << Tick >>) ELSE 0
         IN  IF close # 0
             THEN << " " >> \o withoutInlineCode(text, close + 1)
             ELSE << text[i] >> \o withoutInlineCode(text, i + 1)

RECURSIVE withoutLinks(_, _)
\* line 80: a link [label](target) with non-empty label and target is replaced
\* by its label, from place i on
withoutLinks(text, i) ==
    IF i > Len(text) THEN << >>
    ELSE LET label == IF text[i] = "[" THEN First(text, i + 1, << "]" >>) ELSE 0
             target == IF label > i + 1 /\ At(text, label + 1, << "(" >>)
                       THEN First(text, label + 2, << ")" >>) ELSE 0
         IN  IF target > label + 2
             THEN SubSeq(text, i + 1, label - 1) \o withoutLinks(text, target + 1)
             ELSE << text[i] >> \o withoutLinks(text, i + 1)

RECURSIVE collapse(_)
\* line 81: a run of white space is replaced by one space
collapse(text) ==
    IF Len(text) < 2 THEN text
    ELSE IF text[1] = " " /\ text[2] = " " THEN collapse(Tail(text))
    ELSE << text[1] >> \o collapse(Tail(text))

\* sanitizeForTts (lines 77-82)
sanitizeForTts(text) ==
    trim(collapse(withoutLinks(withoutInlineCode(withoutCodeBlocks(text, 1), 1), 1)))

RECURSIVE scanFromAnyText(_, _)
\* the loop of getLatestAssistant testing the joined text, not the sanitized one
scanFromAnyText(list, i) ==
    IF i = 0 THEN NoMessage
    ELSE IF Content[list[i]].role # "assistant" THEN scanFromAnyText(list, i - 1)
    ELSE IF joinTextParts(Content[list[i]].parts) = << >>
         THEN scanFromAnyText(list, i - 1)
    ELSE i

RECURSIVE scanFrom(_, _)
\* the loop of getLatestAssistant (lines 230-249) from place i down
scanFrom(list, i) ==
    IF i = 0 THEN NoMessage
    ELSE IF Content[list[i]].role # "assistant" THEN scanFrom(list, i - 1)
    ELSE IF sanitizeForTts(joinTextParts(Content[list[i]].parts)) = << >>
         THEN scanFrom(list, i - 1)
    ELSE i

\* getLatestAssistant (lines 226-250): the messageID of the message found,
\* NoMessage for undefined
getLatestAssistant(list) == scanFrom(list, Len(list))

(* ------------------------------- state -------------------------------- *)

VARIABLES
    config,                      \* state.config
    configSource,                \* state.configSource
    configFingerprint,           \* state.configFingerprint
    loadedFile,                  \* log: what the last successful loadVoiceConfig returned
    notice,                      \* log: the toast of the last reloadConfig
    replaced,                    \* log: the enabled flag, the mode and the fingerprint
                                 \*      that the last successful load replaced
    lastSessionID,               \* state.lastSessionID
    disabledSessions,            \* state.disabledSessions
    forgotten,                   \* log: sessions deleted and not named by an event
                                 \*      or targeted by a command since
    lastSpokenAssistantMessage,  \* state.lastSpokenAssistantMessage
    speaking,                    \* state.speaking
    pendingSpeak,                \* state.pendingSpeak
    apiKey,                      \* process.env.ELEVENLABS_API_KEY is set
    tasks,                       \* suspended speakSession invocations
    messages,                    \* host: the message history of each session
    req,                         \* log: one entry per speakSession call of a handler
    idleTts,                     \* log: number of TTS calls of idle requests, for the
                                 \*      pairs << session, message >> that had one
    pendingId,                   \* log: entry of the request in pendingSpeak
    started,                     \* log: entries in the order their pipelines started
    events                       \* log: number of events handled without a speakSession call

cfgVars == << config, configSource, configFingerprint, loadedFile, notice, replaced >>

sessVars == << lastSessionID, disabledSessions, forgotten >>

envVars == << apiKey, messages >>

arbVars == << speaking, pendingSpeak, tasks, req, idleTts, pendingId, started >>

vars == << config, configSource, configFingerprint, loadedFile, notice, replaced, lastSessionID,
           disabledSessions, forgotten, lastSpokenAssistantMessage, speaking, pendingSpeak,
           apiKey, tasks, messages, req, idleTts, pendingId, started, events >>

NoPending == [sessionID |-> NoSession, reason |-> "none"]

\* no load has succeeded yet
NoFile == [config |-> EmptyFile, source |-> "unread"]

\* state.configFingerprint as constructed (line 166)
NoFingerprint == ""

\* positions of a suspended speakSession invocation
\*   toastKey, toastVoice : awaiting toast at lines 283 / 289 (before the try)
\*   fetch      : awaiting client.session.messages (line 227)
\*   toastTrunc : awaiting the truncation toast (line 307)
\*   tts        : awaiting elevenLabsTts (line 310)
\*   write      : awaiting Bun.write in playAudio (line 257)
\*   play       : awaiting the player process and the temp file's deletion
\*                (lines 264-265)
\*   toastErr   : awaiting the toast of the catch block (line 323)
ConfigErrorPcs == {"toastKey", "toastVoice"}

PipelinePcs == {"fetch", "toastTrunc", "tts", "write", "play", "toastErr"}

PlaybackPcs == {"write", "play"}

\* the state constructed at lines 163-172 followed by the reloadConfig of
\* line 334, which announces
Init ==
    /\ \E ok \in BOOLEAN, loaded \in StartupConfigs :
         IF ok
         THEN /\ config = defaultConfig(loaded.config)
              /\ configSource = loaded.source
              /\ configFingerprint = fingerprint(defaultConfig(loaded.config), loaded.source)
              /\ loadedFile = loaded
              /\ notice = "loaded"
         ELSE /\ config = defaultConfig(EmptyFile)
              /\ configSource = "none"
              /\ configFingerprint = NoFingerprint
              /\ loadedFile = NoFile
              /\ notice = "error"
    /\ replaced = [enabled |-> defaultConfig(EmptyFile).enabled,
                   mode |-> defaultConfig(EmptyFile).mode,
                   fingerprint |-> NoFingerprint]
    /\ lastSessionID = NoSession
    /\ disabledSessions = {}
    /\ forgotten = {}
    /\ lastSpokenAssistantMessage = [s \in Sessions |-> NoMessage]
    /\ speaking = FALSE
    /\ pendingSpeak = NoPending
    /\ apiKey \in BOOLEAN
    /\ tasks = {}
    /\ messages = [s \in Sessions |-> << >>]
    /\ req = << >>
    /\ idleTts = << >>
    /\ pendingId = 0
    /\ started = << >>
    /\ events = 0

(* --------------------------- session policy --------------------------- *)

\* isEnabledForSession without the test of the global flag (line 221)
isEnabledIgnoresGlobal(sessionID) ==
    sessionID \notin disabledSessions

isEnabledForSession(sessionID) ==
    IF ~config.enabled THEN FALSE
    ELSE IF sessionID \in disabledSessions THEN FALSE
    ELSE TRUE

(* ----------------------------- request log ---------------------------- *)

\* st: "disabled" (returned at the enabled check), "pending" (in the slot),
\* "overwritten" (replaced in the slot), "configError" (missing key or voice id),
\* "running" (its pipeline is in flight), or how its pipeline ended:
\* "spoken", "noMessage", "duplicate", "failed"
NewReq(st) ==
    [ st |-> st, queued |-> (st = "pending"), tts |-> 0, play |-> 0 ]

\* a speakSession invocation at its first await: voiceId is the constant of
\* line 287, player the player command of state.config at that time (the
\* invocation keeps no copy of it), cmd the player command it has launched
NewTask(id, sessionID, reason, pc) ==
    [ id |-> id, sessionID |-> sessionID, reason |-> reason, pc |-> pc,
      messageID |-> NoMessage, voiceId |-> config.voiceId,
      player |-> config.player, cmd |-> "" ]

StOfBranch(branch) ==
    CASE branch = "disabled" -> "disabled"
      [] branch = "pending" -> "pending"
      [] branch \in ConfigErrorPcs -> "configError"
      [] branch = "fetch" -> "running"

(* --------------------------- speak arbitrator ------------------------- *)

\* speakSession without the test of state.speaking
speakEntryNoBusyCheck(sessionID, isSpeaking) ==
    IF ~isEnabledForSession(sessionID) THEN "disabled"
    ELSE IF ~apiKey THEN "toastKey"
    ELSE IF config.voiceId = "" THEN "toastVoice"
    ELSE "fetch"

\* speakSession with the test of state.speaking (276) before the enabled
\* check (274)
speakEntryBusyFirst(sessionID, isSpeaking) ==
    IF isSpeaking THEN "pending"
    ELSE IF ~isEnabledForSession(sessionID) THEN "disabled"
    ELSE IF ~apiKey THEN "toastKey"
    ELSE IF config.voiceId = "" THEN "toastVoice"
    ELSE "fetch"

\* speakSession up to its first await or return (lines 273-298): where the
\* call goes, given the value of state.speaking it reads
speakEntry(sessionID, isSpeaking) ==
    IF ~isEnabledForSession(sessionID) THEN "disabled"
    ELSE IF isSpeaking THEN "pending"
    ELSE IF ~apiKey THEN "toastKey"
    ELSE IF config.voiceId = "" THEN "toastVoice"
    ELSE "fetch"

\* speakSession keeping the request already in the slot (first writer wins)
speakSessionKeepsFirst(sessionID, reason) ==
    LET id == Len(req) + 1
        branch == speakEntry(sessionID, speaking)
        entry == NewReq(StOfBranch(branch))
    IN  /\ Len(req) < MaxReq
        /\ Len(req) + events < MaxDeliveries
        /\ CASE branch = "disabled" ->
                  /\ req' = Append(req, entry)
                  /\ UNCHANGED << speaking, pendingSpeak, tasks, idleTts, pendingId, started >>
             [] branch = "pending" ->
                  /\ pendingSpeak' = IF pendingSpeak = NoPending
                                     THEN [sessionID |-> sessionID, reason |-> reason]
                                     ELSE pendingSpeak
                  /\ pendingId' = IF pendingId = 0 THEN id ELSE pendingId
                  /\ req' = Append(req, IF pendingId = 0 THEN entry
                                        ELSE [entry EXCEPT !.st = "overwritten"])
                  /\ UNCHANGED << speaking, tasks, idleTts, started >>
             [] branch \in ConfigErrorPcs ->
                  /\ tasks' = tasks \cup {NewTask(id, sessionID, reason, branch)}
                  /\ req' = Append(req, entry)
                  /\ UNCHANGED << speaking, pendingSpeak, idleTts, pendingId, started >>
             [] branch = "fetch" ->
                  /\ speaking' = TRUE
                  /\ tasks' = tasks \cup {NewTask(id, sessionID, reason, branch)}
                  /\ req' = Append(req, entry)
                  /\ started' = Append(started, id)
                  /\ UNCHANGED << pendingSpeak, idleTts, pendingId >>

\* a handler's call speakSession(sessionID, reason)
speakSession(sessionID, reason) ==
    LET id == Len(req) + 1
        branch == speakEntry(sessionID, speaking)
        entry == NewReq(StOfBranch(branch))
    IN  /\ Len(req) < MaxReq
        /\ Len(req) + events < MaxDeliveries
        /\ CASE branch = "disabled" ->
                  /\ req' = Append(req, entry)
                  /\ UNCHANGED << speaking, pendingSpeak, tasks, idleTts, pendingId, started >>
             [] branch = "pending" ->
                  /\ pendingSpeak' = [sessionID |-> sessionID, reason |-> reason]
                  /\ pendingId' = id
                  /\ req' = Append(IF pendingId # 0
                                   THEN [req EXCEPT ![pendingId].st = "overwritten"]
                                   ELSE req, entry)
                  /\ UNCHANGED << speaking, tasks, idleTts, started >>
             [] branch \in ConfigErrorPcs ->
                  /\ tasks' = tasks \cup {NewTask(id, sessionID, reason, branch)}
                  /\ req' = Append(req, entry)
                  /\ UNCHANGED << speaking, pendingSpeak, idleTts, pendingId, started >>
             [] branch = "fetch" ->
                  /\ speaking' = TRUE
                  /\ tasks' = tasks \cup {NewTask(id, sessionID, reason, branch)}
                  /\ req' = Append(req, entry)
                  /\ started' = Append(started, id)
                  /\ UNCHANGED << pendingSpeak, idleTts, pendingId >>

\* the finally block without lines 326-330: the slot is cleared and the
\* request in it is not run
FinallyNoDrain(t, outcome, log) ==
    /\ speaking' = FALSE
    /\ UNCHANGED idleTts
    /\ pendingSpeak' = NoPending
    /\ pendingId' = 0
    /\ tasks' = tasks \ {t}
    /\ req' = IF pendingId = 0 THEN [log EXCEPT ![t.id].st = outcome]
              ELSE [log EXCEPT ![t.id].st = outcome, ![pendingId].st = "disabled"]
    /\ UNCHANGED started

\* the finally block running the request of the slot without the enabled
\* check of line 274
FinallyDrainUnchecked(t, outcome, log) ==
    LET pending == pendingSpeak
        branch == IF pending = NoPending THEN "return"
                  ELSE IF ~apiKey THEN "toastKey"
                  ELSE IF config.voiceId = "" THEN "toastVoice"
                  ELSE "fetch"
        next == IF branch \in ConfigErrorPcs \cup {"fetch"}
                THEN {NewTask(pendingId, pending.sessionID, pending.reason, branch)}
                ELSE {}
        log1 == [log EXCEPT ![t.id].st = outcome]
    IN  /\ speaking' = (branch = "fetch")
        /\ UNCHANGED idleTts
        /\ pendingSpeak' = NoPending
        /\ pendingId' = 0
        /\ tasks' = (tasks \ {t}) \cup next
        /\ req' = IF branch = "return" THEN log1
                  ELSE [log1 EXCEPT ![pendingId].st = StOfBranch(branch)]
        /\ started' = IF branch = "fetch" THEN Append(started, pendingId) ELSE started

\* the finally block with line 327 (state.pendingSpeak = undefined) left out
FinallyKeepsPending(t, outcome, log) ==
    LET pending == pendingSpeak
        branch == IF pending = NoPending THEN "return"
                  ELSE speakEntry(pending.sessionID, FALSE)
        next == IF branch \in ConfigErrorPcs \cup {"fetch"}
                THEN {NewTask(pendingId, pending.sessionID, pending.reason, branch)}
                ELSE {}
        log1 == [log EXCEPT ![t.id].st = outcome]
    IN  /\ speaking' = (branch = "fetch")
        /\ UNCHANGED << pendingSpeak, pendingId, idleTts >>
        /\ tasks' = (tasks \ {t}) \cup next
        /\ req' = IF branch = "return" THEN log1
                  ELSE [log1 EXCEPT ![pendingId].st = StOfBranch(branch)]
        /\ started' = IF branch = "fetch" THEN Append(started, pendingId) ELSE started

\* the finally block with line 325 (state.speaking = false) run on success only
FinallyKeepsSpeaking(t, outcome, log) ==
    LET pending == pendingSpeak
        busy == outcome # "spoken"
        branch == IF pending = NoPending THEN "return"
                  ELSE speakEntry(pending.sessionID, busy)
        next == IF branch \in ConfigErrorPcs \cup {"fetch"}
                THEN {NewTask(pendingId, pending.sessionID, pending.reason, branch)}
                ELSE {}
        log1 == [log EXCEPT ![t.id].st = outcome]
    IN  /\ speaking' = (busy \/ branch = "fetch")
        /\ UNCHANGED idleTts
        /\ pendingSpeak' = IF branch = "pending" THEN pending ELSE NoPending
        /\ pendingId' = IF branch = "pending" THEN pendingId ELSE 0
        /\ tasks' = (tasks \ {t}) \cup next
        /\ req' = IF branch = "return" THEN log1
                  ELSE [log1 EXCEPT ![pendingId].st = StOfBranch(branch)]
        /\ started' = IF branch = "fetch" THEN Append(started, pendingId) ELSE started

\* the finally block with lines 326-330 left out: the slot is neither cleared
\* nor run
FinallyLeavesSlot(t, outcome, log) ==
    /\ speaking' = FALSE
    /\ UNCHANGED << pendingSpeak, pendingId, idleTts, started >>
    /\ tasks' = tasks \ {t}
    /\ req' = [log EXCEPT ![t.id].st = outcome]

\* the finally block of speakSession (lines 324-331) for the invocation t whose
\* try block ended with `outcome`; the recursive call runs to its first await
Finally(t, outcome, log) ==
    LET pending == pendingSpeak
        branch == IF pending = NoPending THEN "return"
                  ELSE speakEntry(pending.sessionID, FALSE)
        next == IF branch \in ConfigErrorPcs \cup {"fetch"}
                THEN {NewTask(pendingId, pending.sessionID, pending.reason, branch)}
                ELSE {}
        log1 == [log EXCEPT ![t.id].st = outcome]
    IN  /\ speaking' = (branch = "fetch")
        /\ UNCHANGED idleTts
        /\ pendingSpeak' = NoPending
        /\ pendingId' = 0
        /\ tasks' = (tasks \ {t}) \cup next
        /\ req' = IF branch = "return" THEN log1
                  ELSE [log1 EXCEPT ![pendingId].st = StOfBranch(branch)]
        /\ started' = IF branch = "fetch" THEN Append(started, pendingId) ELSE started

\* the invocation t moves to its next await
Move(t, pc, messageID, log) ==
    /\ tasks' = (tasks \ {t}) \cup {[t EXCEPT !.pc = pc, !.messageID = messageID]}
    /\ req' = log
    /\ UNCHANGED << speaking, pendingSpeak, pendingId, started >>

\* TTS calls of idle requests of the session for the message
IdleCalls(sessionID, messageID) ==
    IF << sessionID, messageID >> \in DOMAIN idleTts
    THEN idleTts[<< sessionID, messageID >>]
    ELSE 0

\* the call of elevenLabsTts (line 310)
CallTts(t, messageID) ==
    /\ Move(t, "tts", messageID, [req EXCEPT ![t.id].tts = @ + 1])
    /\ idleTts' = IF t.reason # "idle" THEN idleTts
                  ELSE IF << t.sessionID, messageID >> \in DOMAIN idleTts
                  THEN [idleTts EXCEPT ![<< t.sessionID, messageID >>] = @ + 1]
                  ELSE idleTts @@ (<< t.sessionID, messageID >> :> 1)

(* --------------------------- config manager --------------------------- *)

\* reloadConfig announcing every successful load (line 205 without `changed`)
reloadConfigAlwaysAnnounces(announce, ok, loaded) ==
    LET cfg == defaultConfig(loaded.config)
        fp == fingerprint(cfg, loaded.source)
    IN  IF ok
        THEN /\ config' = cfg
             /\ configSource' = loaded.source
             /\ configFingerprint' = fp
             /\ loadedFile' = loaded
             /\ replaced' = [enabled |-> config.enabled, mode |-> config.mode,
                              fingerprint |-> configFingerprint]
             /\ notice' = IF announce THEN "loaded" ELSE "none"
        ELSE /\ UNCHANGED << config, configSource, configFingerprint, loadedFile, replaced >>
             /\ notice' = "error"

\* reloadConfig whose catch block falls back to the default configuration
reloadConfigResetsOnError(announce, ok, loaded) ==
    LET cfg == defaultConfig(loaded.config)
        fp == fingerprint(cfg, loaded.source)
        changed == fp # configFingerprint
    IN  IF ok
        THEN /\ config' = cfg
             /\ configSource' = loaded.source
             /\ configFingerprint' = fp
             /\ loadedFile' = loaded
             /\ replaced' = [enabled |-> config.enabled, mode |-> config.mode,
                              fingerprint |-> configFingerprint]
             /\ notice' = IF announce /\ changed THEN "loaded" ELSE "none"
        ELSE /\ config' = defaultConfig(EmptyFile)
             /\ UNCHANGED << configSource, configFingerprint, loadedFile, replaced >>
             /\ notice' = "error"

\* reloadConfig assigning state.config only when the fingerprint changed
reloadConfigKeepsRuntime(announce, ok, loaded) ==
    LET cfg == defaultConfig(loaded.config)
        fp == fingerprint(cfg, loaded.source)
        changed == fp # configFingerprint
    IN  IF ok
        THEN /\ config' = IF changed THEN cfg ELSE config
             /\ configSource' = loaded.source
             /\ configFingerprint' = fp
             /\ loadedFile' = loaded
             /\ replaced' = [enabled |-> config.enabled, mode |-> config.mode,
                              fingerprint |-> configFingerprint]
             /\ notice' = IF announce /\ changed THEN "loaded" ELSE "none"
        ELSE /\ UNCHANGED << config, configSource, configFingerprint, loadedFile, replaced >>
             /\ notice' = "error"

\* reloadConfig from the return of loadVoiceConfig on (lines 197-217); a failed
\* read or parse goes to the catch block, which only reports.  notice is the
\* toast of line 206 ("loaded"), of line 216 ("error") or neither ("none")
reloadConfig(announce, ok, loaded) ==
    LET cfg == defaultConfig(loaded.config)
        fp == fingerprint(cfg, loaded.source)
        changed == fp # configFingerprint
    IN  IF ok
        THEN /\ config' = cfg
             /\ configSource' = loaded.source
             /\ configFingerprint' = fp
             /\ loadedFile' = loaded
             /\ replaced' = [enabled |-> config.enabled, mode |-> config.mode,
                              fingerprint |-> configFingerprint]
             /\ notice' = IF announce /\ changed THEN "loaded" ELSE "none"
        ELSE /\ UNCHANGED << config, configSource, configFingerprint, loadedFile, replaced >>
             /\ notice' = "error"

(* ------------------------------- events ------------------------------- *)

\* Handled waiting for the pipeline in flight to end
HandledWhenIdle ==
    /\ ~speaking
    /\ events < MaxEvents
    /\ Len(req) + events < MaxDeliveries
    /\ events' = events + 1

\* an event or command that makes no speakSession call is handled
Handled ==
    /\ events < MaxEvents
    /\ Len(req) + events < MaxDeliveries
    /\ events' = events + 1

\* event session.idle (lines 402-409)
SessionIdle(sessionID) ==
    /\ lastSessionID' = sessionID
    /\ forgotten' = forgotten \ {sessionID}
    /\ IF config.mode = "continuous"
       THEN speakSession(sessionID, "idle") /\ UNCHANGED events
       ELSE Handled /\ UNCHANGED arbVars
    /\ UNCHANGED << cfgVars, disabledSessions, lastSpokenAssistantMessage, envVars >>

\* event message.updated (lines 411-415)
MessageUpdated(sessionID) ==
    /\ Handled
    /\ lastSessionID' = sessionID
    /\ forgotten' = forgotten \ {sessionID}
    /\ UNCHANGED << cfgVars, disabledSessions, lastSpokenAssistantMessage,
                    envVars, arbVars >>

\* session.deleted clearing state.lastSessionID when it names the session
SessionDeletedClearsActive(sessionID) ==
    /\ Handled
    /\ disabledSessions' = disabledSessions \ {sessionID}
    /\ forgotten' = forgotten \cup {sessionID}
    /\ lastSpokenAssistantMessage' =
           [lastSpokenAssistantMessage EXCEPT ![sessionID] = NoMessage]
    /\ lastSessionID' = IF lastSessionID = sessionID THEN NoSession ELSE lastSessionID
    /\ UNCHANGED << cfgVars, envVars, arbVars >>

\* event session.deleted (lines 417-423)
SessionDeleted(sessionID) ==
    /\ Handled
    /\ disabledSessions' = disabledSessions \ {sessionID}
    /\ forgotten' = forgotten \cup {sessionID}
    /\ lastSpokenAssistantMessage' =
           [lastSpokenAssistantMessage EXCEPT ![sessionID] = NoMessage]
    /\ UNCHANGED << cfgVars, lastSessionID, envVars, arbVars >>

\* event file.watcher.updated naming a config path (lines 433-448)
FileWatcherUpdated ==
    /\ Handled
    /\ \/ \E loaded \in LoadedConfigs : reloadConfig(FALSE, TRUE, loaded)
       \/ reloadConfig(FALSE, FALSE, NoFile)
    /\ UNCHANGED << sessVars, lastSpokenAssistantMessage, envVars, arbVars >>

\* command voice.reload (lines 339-342)
VoiceReload ==
    /\ Handled
    /\ \/ \E loaded \in LoadedConfigs : reloadConfig(TRUE, TRUE, loaded)
       \/ reloadConfig(TRUE, FALSE, NoFile)
    /\ UNCHANGED << sessVars, lastSpokenAssistantMessage, envVars, arbVars >>

\* command voice.status (lines 344-348): a toast only
VoiceStatus ==
    /\ Handled
    /\ UNCHANGED << cfgVars, sessVars, lastSpokenAssistantMessage, envVars, arbVars >>

\* commands voice.mode.continuous and voice.mode.push-to-talk (lines 350-360)
VoiceMode(mode) ==
    /\ Handled
    /\ config' = [config EXCEPT !.mode = mode]
    /\ UNCHANGED << configSource, configFingerprint, loadedFile, notice, replaced, sessVars,
                    lastSpokenAssistantMessage, envVars, arbVars >>

\* command voice.speak (lines 362-369)
VoiceSpeak ==
    /\ IF lastSessionID = NoSession
       THEN Handled /\ UNCHANGED arbVars
       ELSE speakSession(lastSessionID, "manual") /\ UNCHANGED events
    /\ forgotten' = forgotten \ {lastSessionID}
    /\ UNCHANGED << cfgVars, lastSessionID, disabledSessions,
                    lastSpokenAssistantMessage, envVars >>

\* voice.on/off/toggle writing the global flag as well when a session is active
VoiceSwitchUnscoped(command) ==
    /\ Handled
    /\ forgotten' = forgotten \ {lastSessionID}
    /\ IF lastSessionID = NoSession
       THEN /\ config' = [config EXCEPT !.enabled =
                             CASE command = "voice.toggle" -> ~config.enabled
                               [] command = "voice.on" -> TRUE
                               [] command = "voice.off" -> FALSE]
            /\ UNCHANGED disabledSessions
       ELSE LET currentlyOn == isEnabledForSession(lastSessionID)
                nextOn == CASE command = "voice.on" -> TRUE
                            [] command = "voice.off" -> FALSE
                            [] command = "voice.toggle" -> ~currentlyOn
            IN  /\ disabledSessions' =
                       IF nextOn THEN disabledSessions \ {lastSessionID}
                       ELSE disabledSessions \cup {lastSessionID}
                /\ config' = [config EXCEPT !.enabled = nextOn]
    /\ UNCHANGED << configSource, configFingerprint, loadedFile, notice, replaced,
                    lastSessionID, lastSpokenAssistantMessage, envVars, arbVars >>

\* commands voice.on, voice.off, voice.toggle (lines 371-389)
VoiceSwitch(command) ==
    /\ Handled
    /\ forgotten' = forgotten \ {lastSessionID}
    /\ IF lastSessionID = NoSession
       THEN /\ config' = [config EXCEPT !.enabled =
                             CASE command = "voice.toggle" -> ~config.enabled
                               [] command = "voice.on" -> TRUE
                               [] command = "voice.off" -> FALSE]
            /\ UNCHANGED disabledSessions
       ELSE LET currentlyOn == isEnabledForSession(lastSessionID)
                nextOn == CASE command = "voice.on" -> TRUE
                            [] command = "voice.off" -> FALSE
                            [] command = "voice.toggle" -> ~currentlyOn
            IN  /\ disabledSessions' =
                       IF nextOn THEN disabledSessions \ {lastSessionID}
                       ELSE disabledSessions \cup {lastSessionID}
                /\ UNCHANGED config
    /\ UNCHANGED << configSource, configFingerprint, loadedFile, notice, replaced,
                    lastSessionID, lastSpokenAssistantMessage, envVars, arbVars >>

\* host: the session's history receives a new assistant message with
\* speakable text
NewMessage(sessionID) ==
    /\ Len(messages[sessionID]) < MaxMsg
    /\ messages' = [messages EXCEPT ![sessionID] = Append(@, "prose")]
    /\ UNCHANGED << cfgVars, sessVars, lastSpokenAssistantMessage, apiKey,
                    arbVars, events >>

\* host: the history of session s1 receives a message of any kind
HostAppends(m) ==
    /\ Len(messages["s1"]) < MaxHist
    /\ messages' = [messages EXCEPT !["s1"] = Append(@, m)]
    /\ UNCHANGED << cfgVars, sessVars, lastSpokenAssistantMessage, apiKey,
                    arbVars, events >>

(* ------------------------ the suspended invocations ------------------- *)

\* the toast of a configuration error returns; speakSession returns (lines 283-290)
ConfigToastDone(t) ==
    /\ t.pc \in ConfigErrorPcs
    /\ tasks' = tasks \ {t}
    /\ UNCHANGED << cfgVars, sessVars, lastSpokenAssistantMessage, envVars,
                    speaking, pendingSpeak, req, idleTts, pendingId, started, events >>

\* FetchDone without the duplicate check of lines 301-304
FetchDoneNoDupCheck(t) ==
    /\ t.pc = "fetch"
    /\ \E ok \in BOOLEAN, truncated \in BOOLEAN :
         LET messageID == getLatestAssistant(messages[t.sessionID])
         IN  IF ~ok THEN Move(t, "toastErr", NoMessage, req) /\ UNCHANGED idleTts
             ELSE IF messageID = NoMessage THEN Finally(t, "noMessage", req)
             ELSE IF truncated
                  THEN Move(t, "toastTrunc", messageID, req) /\ UNCHANGED idleTts
             ELSE CallTts(t, messageID)
    /\ UNCHANGED << cfgVars, sessVars, lastSpokenAssistantMessage, envVars, events >>

\* FetchDone with the duplicate check made for every reason
FetchDoneDupAnyReason(t) ==
    /\ t.pc = "fetch"
    /\ \E ok \in BOOLEAN, truncated \in BOOLEAN :
         LET messageID == getLatestAssistant(messages[t.sessionID])
         IN  IF ~ok THEN Move(t, "toastErr", NoMessage, req) /\ UNCHANGED idleTts
             ELSE IF messageID = NoMessage THEN Finally(t, "noMessage", req)
             ELSE IF lastSpokenAssistantMessage[t.sessionID] = messageID
                  THEN Finally(t, "duplicate", req)
             ELSE IF truncated
                  THEN Move(t, "toastTrunc", messageID, req) /\ UNCHANGED idleTts
             ELSE CallTts(t, messageID)
    /\ UNCHANGED << cfgVars, sessVars, lastSpokenAssistantMessage, envVars, events >>

\* getLatestAssistant returns or throws (lines 298-310)
FetchDone(t) ==
    /\ t.pc = "fetch"
    /\ \E ok \in BOOLEAN, truncated \in BOOLEAN :
         LET messageID == getLatestAssistant(messages[t.sessionID])
         IN  IF ~ok THEN Move(t, "toastErr", NoMessage, req) /\ UNCHANGED idleTts
             ELSE IF messageID = NoMessage THEN Finally(t, "noMessage", req)
             ELSE IF /\ t.reason = "idle"
                     /\ lastSpokenAssistantMessage[t.sessionID] = messageID
                  THEN Finally(t, "duplicate", req)
             ELSE IF truncated
                  THEN Move(t, "toastTrunc", messageID, req) /\ UNCHANGED idleTts
             ELSE CallTts(t, messageID)
    /\ UNCHANGED << cfgVars, sessVars, lastSpokenAssistantMessage, envVars, events >>

\* the truncation toast returns (lines 306-310)
TruncToastDone(t) ==
    /\ t.pc = "toastTrunc"
    /\ CallTts(t, t.messageID)
    /\ UNCHANGED << cfgVars, sessVars, lastSpokenAssistantMessage, envVars, events >>

\* elevenLabsTts returns the bytes or throws; playAudio starts with Bun.write
\* (lines 310-319, 252-257)
TtsDone(t) ==
    /\ t.pc = "tts"
    /\ \E ok \in BOOLEAN :
         /\ IF ok THEN Move(t, "write", t.messageID, req)
            ELSE Move(t, "toastErr", t.messageID, req)
         /\ UNCHANGED idleTts
    /\ UNCHANGED << cfgVars, sessVars, lastSpokenAssistantMessage, envVars, events >>

\* Bun.write returns or throws; the player command is read from state.config
\* and started (lines 257-264)
WriteDone(t) ==
    /\ t.pc = "write"
    /\ \E ok \in BOOLEAN :
         /\ IF ok
            THEN /\ tasks' = (tasks \ {t}) \cup
                                {[t EXCEPT !.pc = "play", !.cmd = config.player]}
                 /\ req' = [req EXCEPT ![t.id].play = @ + 1]
                 /\ UNCHANGED << speaking, pendingSpeak, pendingId, started >>
            ELSE Move(t, "toastErr", t.messageID, req)
         /\ UNCHANGED idleTts
    /\ UNCHANGED << cfgVars, sessVars, lastSpokenAssistantMessage, envVars, events >>

\* PlayDone with line 321 run whatever the player's exit code
PlayDoneRecordsOnFailure(t) ==
    /\ t.pc = "play"
    /\ \E exitCode \in {0, 1} :
         /\ lastSpokenAssistantMessage' =
                [lastSpokenAssistantMessage EXCEPT ![t.sessionID] = t.messageID]
         /\ IF exitCode # 0
            THEN Move(t, "toastErr", t.messageID, req) /\ UNCHANGED idleTts
            ELSE Finally(t, "spoken", req)
    /\ UNCHANGED << cfgVars, sessVars, envVars, events >>

\* the player exits and the temp file's deletion returns (lines 264-265: no
\* state is read or written between the two awaits); a non-zero exit code
\* throws, else the message is recorded as spoken and the finally block runs
\* (lines 267-270, 321-331)
PlayDone(t) ==
    /\ t.pc = "play"
    /\ \E exitCode \in {0, 1} :
         IF exitCode # 0
         THEN /\ Move(t, "toastErr", t.messageID, req)
              /\ UNCHANGED << lastSpokenAssistantMessage, idleTts >>
         ELSE /\ lastSpokenAssistantMessage' =
                     [lastSpokenAssistantMessage EXCEPT ![t.sessionID] = t.messageID]
              /\ Finally(t, "spoken", req)
    /\ UNCHANGED << cfgVars, sessVars, envVars, events >>

\* ErrToastDone calling getLatestAssistant again after the report
ErrToastDoneRetries(t) ==
    /\ t.pc = "toastErr"
    /\ Move(t, "fetch", NoMessage, req)
    /\ UNCHANGED << cfgVars, sessVars, lastSpokenAssistantMessage, envVars,
                    idleTts, events >>

\* ErrToastDone returning without the finally block
ErrToastDoneSkipsFinally(t) ==
    /\ t.pc = "toastErr"
    /\ tasks' = tasks \ {t}
    /\ req' = [req EXCEPT ![t.id].st = "failed"]
    /\ UNCHANGED << cfgVars, sessVars, lastSpokenAssistantMessage, envVars,
                    speaking, pendingSpeak, pendingId, started, idleTts, events >>

\* the toast of the catch block returns; the finally block runs (lines 322-331)
ErrToastDone(t) ==
    /\ t.pc = "toastErr"
    /\ Finally(t, "failed", req)
    /\ UNCHANGED << cfgVars, sessVars, lastSpokenAssistantMessage, envVars, events >>

(* ---------------------------- specification --------------------------- *)

Next ==
    \/ \E s \in Sessions : SessionIdle(s)
    \/ \E s \in Sessions : MessageUpdated(s)
    \/ \E s \in Sessions : SessionDeleted(s)
    \/ FileWatcherUpdated
    \/ VoiceReload
    \/ VoiceStatus
    \/ \E m \in Modes : VoiceMode(m)
    \/ VoiceSpeak
    \/ \E c \in {"voice.on", "voice.off", "voice.toggle"} : VoiceSwitch(c)
    \/ \E s \in Sessions : NewMessage(s)
    \/ \E t \in tasks : ConfigToastDone(t)
    \/ \E t \in tasks : FetchDone(t)
    \/ \E t \in tasks : TruncToastDone(t)
    \/ \E t \in tasks : TtsDone(t)
    \/ \E t \in tasks : WriteDone(t)
    \/ \E t \in tasks : PlayDone(t)
    \/ \E t \in tasks : ErrToastDone(t)

Spec == Init /\ [][Next]_vars

\* the events and commands that read or write the configuration and the
\* session policy only, with no speakSession call among them
ConfigNext ==
    \/ \E s \in Sessions : MessageUpdated(s)
    \/ \E s \in Sessions : SessionDeleted(s)
    \/ FileWatcherUpdated
    \/ VoiceReload
    \/ VoiceStatus
    \/ \E m \in Modes : VoiceMode(m)
    \/ \E c \in {"voice.on", "voice.off", "voice.toggle"} : VoiceSwitch(c)

ConfigSpec == Init /\ [][ConfigNext]_vars

\* speak requests for session s1 and their pipelines over histories of
\* messages of every kind
ScanNext ==
    \/ \E m \in EligibleMessages \cup SkippedMessages : HostAppends(m)
    \/ SessionIdle("s1")
    \/ VoiceSpeak
    \/ \E t \in tasks : ConfigToastDone(t)
    \/ \E t \in tasks : FetchDone(t)
    \/ \E t \in tasks : TruncToastDone(t)
    \/ \E t \in tasks : TtsDone(t)
    \/ \E t \in tasks : WriteDone(t)
    \/ \E t \in tasks : PlayDone(t)
    \/ \E t \in tasks : ErrToastDone(t)

ScanSpec == Init /\ [][ScanNext]_vars

\* every awaited call of a suspended invocation eventually returns or throws
Returns ==
    \E t \in tasks :
        \/ ConfigToastDone(t)
        \/ FetchDone(t)
        \/ TruncToastDone(t)
        \/ TtsDone(t)
        \/ WriteDone(t)
        \/ PlayDone(t)
        \/ ErrToastDone(t)

\* the events that bear on the requests in flight, and the returns
LiveNext ==
    \/ \E s \in Sessions : SessionIdle(s)
    \/ VoiceSpeak
    \/ \E c \in {"voice.on", "voice.off", "voice.toggle"} : VoiceSwitch(c)
    \/ \E s \in Sessions : NewMessage(s)
    \/ Returns

FairSpec == Init /\ [][LiveNext]_vars /\ WF_vars(Returns)

Outcomes == {"spoken", "noMessage", "duplicate", "failed"}

(* ------------------------------- claims ------------------------------- *)

Pipelines == {t \in tasks : t.pc \in PipelinePcs}

Entries == 1..Len(req)

\* C1: at most one speak pipeline is in flight at any time: never more than one
\* outstanding TTS request, never more than one outstanding playback, and never
\* a TTS request outstanding together with a playback.
C1_OnePipelineInFlight ==
    LET ttsOut == {t \in tasks : t.pc = "tts"}
        playOut == {t \in tasks : t.pc \in PlaybackPcs}
    IN  /\ Cardinality(Pipelines) <= 1
        /\ Cardinality(ttsOut) <= 1
        /\ Cardinality(playOut) <= 1
        /\ ttsOut = {} \/ playOut = {}

\* a playback is outstanding, a later request waits in the slot, and another
\* event has been handled meanwhile
C1_Witness ==
    /\ \E t \in tasks : t.pc = "play"
    /\ pendingSpeak # NoPending
    /\ events > 0

\* a handler calls speakSession(sessionID, reason) in this step
Calls(sessionID, reason) ==
    IF reason = "idle"
    THEN SessionIdle(sessionID) /\ config.mode = "continuous"
    ELSE VoiceSpeak /\ lastSessionID = sessionID

\* the pipeline of invocation t ends in this step (its finally block runs)
Completes(t) ==
    /\ t \in Pipelines
    /\ req[t.id].st = "running"
    /\ req'[t.id].st \in Outcomes

\* a request for this session would pass the checks of lines 274-291
PassesChecks(sessionID) ==
    /\ config.enabled
    /\ sessionID \notin disabledSessions
    /\ apiKey
    /\ config.voiceId # ""

\* the pipeline of the request in the slot is the one in flight after the step
SlotStarted ==
    /\ speaking'
    /\ Pipelines' = { NewTask(pendingId, pendingSpeak.sessionID,
                               pendingSpeak.reason, "fetch") }

C2_Step ==
    /\ \A s \in Sessions, r \in Reasons :
         (Calls(s, r) /\ speaking /\ config.enabled /\ s \notin disabledSessions)
           => /\ tasks' = tasks
              /\ speaking'
              /\ pendingSpeak' = [sessionID |-> s, reason |-> r]
    /\ \A t \in Pipelines :
         (Completes(t) /\ pendingSpeak # NoPending /\ PassesChecks(pendingSpeak.sessionID))
           => /\ pendingSpeak' = NoPending
              /\ SlotStarted

\* C2: a request for an enabled session that arrives while a pipeline is in
\* flight starts no second pipeline and is put in the slot; when the first
\* pipeline completes with that request in the slot, the slot is cleared in the
\* same step in which the request's pipeline starts, and that pipeline runs to
\* completion; a pipeline that ends spoken has made one TTS call and one
\* playback (two pipelines: two and two).
C2_QueuedRequestRuns ==
    /\ [][C2_Step]_vars
    /\ [](\A i \in Entries : req[i].st = "spoken" => req[i].tts = 1 /\ req[i].play = 1)
    /\ \A i \in 1..MaxReq :
         (i \in Entries /\ req[i].queued /\ req[i].st = "running")
           ~> (i \in Entries /\ req[i].st \in Outcomes)

\* both sessions have been spoken, the second by a request that waited in the slot
C2_Witness ==
    /\ \E i \in Entries, j \in Entries :
         /\ i < j
         /\ req[i].st = "spoken" /\ ~req[i].queued
         /\ req[j].st = "spoken" /\ req[j].queued
    /\ \A s \in Sessions : lastSpokenAssistantMessage[s] # NoMessage
    /\ ~speaking

\* C3 as stated: a request that was put in the slot and not overwritten is never
\* dropped; when the in-flight pipeline completes its pipeline is executed.
C3_QueuedNeverLost ==
    \A i \in Entries :
        req[i].queued => req[i].st \in {"pending", "overwritten", "running"} \cup Outcomes

C3_Step ==
    (pendingSpeak # NoPending /\ pendingId' # pendingId)
      => \/ /\ Len(req') = Len(req) + 1
            /\ pendingId' = Len(req')
            /\ req'[pendingId].st = "overwritten"
         \/ \E t \in Pipelines :
              /\ Completes(t)
              /\ pendingSpeak' = NoPending
              /\ IF PassesChecks(pendingSpeak.sessionID)
                 THEN SlotStarted
                 ELSE /\ Pipelines' = {}
                      /\ ~speaking'
                      /\ req'[pendingId].st \in {"disabled", "configError"}

\* C3 as amended: a request in the slot leaves it only when a later request
\* overwrites it or when the in-flight pipeline completes; at that completion
\* its pipeline starts if and only if its session is then enabled (global flag
\* on, session not in the disabled set) and the credential and voice id are
\* present, whatever events were handled since it was queued; otherwise it is
\* dropped.
C3_QueuedResubmitted ==
    [][C3_Step]_vars

\* one queued request was dropped at the completion of the pipeline before it
\* and another one was run, with other events handled in between
C3_Witness ==
    /\ \E i \in Entries : req[i].queued /\ req[i].st = "disabled"
    /\ \E j \in Entries : req[j].queued /\ req[j].st \in Outcomes
    /\ events > 0

C4_Step ==
    \A s \in Sessions, r \in Reasons :
        (Calls(s, r) /\ pendingSpeak # NoPending /\ isEnabledForSession(s))
          => /\ pendingSpeak' = [sessionID |-> s, reason |-> r]
             /\ pendingId' = Len(req')
             /\ req'[pendingId].st = "overwritten"
             /\ tasks' = tasks

\* C4: a request (for an enabled session) that arrives while another is in the
\* slot replaces it: the slot then holds the new request's sessionID and reason,
\* for the same or a different session; the replaced request's pipeline never runs.
C4_LastWriterWins ==
    /\ [][C4_Step]_vars
    /\ [](\A i \in Entries :
            req[i].st = "overwritten"
              => /\ \A k \in 1..Len(started) : started[k] # i
                 /\ \A t \in tasks : t.id # i
                 /\ pendingId # i
                 /\ req[i].tts = 0 /\ req[i].play = 0)

\* the second request was replaced in the slot by the third
C4_Witness ==
    /\ Len(req) = 3
    /\ req[1].st = "running"
    /\ req[2].st = "overwritten"
    /\ pendingId = 3

\* C5 as stated: idle requests of one session that find the same newest message
\* make one TTS call between them.
C5_OneIdleTtsPerMessage ==
    \A s \in Sessions, m \in MessageIDs : IdleCalls(s, m) <= 1

C5_Step ==
    \A s \in Sessions, m \in MessageIDs :
        IdleCalls(s, m)' # IdleCalls(s, m)
          => /\ IdleCalls(s, m)' = IdleCalls(s, m) + 1
             /\ lastSpokenAssistantMessage[s] # m

\* C5 as amended: once a pipeline of the session has spoken the message with
\* success (TTS and playback) and the session has not been deleted since, an
\* idle request for the session that finds the same message makes no TTS call
\* and no playback, whether it arrived after that pipeline or waited in the slot
\* while it was in flight.
C5_NoIdleTtsForSpokenMessage ==
    /\ [][C5_Step]_vars
    /\ [](\A t \in tasks :
            (t.reason = "idle" /\ t.pc \in {"toastTrunc", "tts", "write", "play"})
              => lastSpokenAssistantMessage[t.sessionID] # t.messageID)

\* an idle request that waited in the slot found the message just spoken and
\* ended without a TTS call
C5_Witness ==
    \E i \in Entries, s \in Sessions, m \in MessageIDs :
        /\ req[i].queued
        /\ req[i].st = "duplicate"
        /\ req[i].tts = 0
        /\ IdleCalls(s, m) = 1
        /\ lastSpokenAssistantMessage[s] = m

C6_Step ==
    /\ \A s \in Sessions :
         (Calls(s, "manual") /\ ~speaking /\ PassesChecks(s))
           => /\ speaking'
              /\ Pipelines' = { NewTask(Len(req'), s, "manual", "fetch") }
    /\ \A t \in tasks :
         (t.reason = "manual" /\ t.pc = "fetch" /\ t \notin tasks'
            /\ getLatestAssistant(messages[t.sessionID]) # NoMessage)
           => \E u \in tasks' :
                /\ u.id = t.id
                /\ \/ u.pc = "toastErr" /\ req'[t.id].tts = req[t.id].tts
                   \/ u.pc = "toastTrunc" /\ u.messageID = getLatestAssistant(messages[t.sessionID])
                   \/ /\ u.pc = "tts"
                      /\ u.messageID = getLatestAssistant(messages[t.sessionID])
                      /\ req'[t.id].tts = req[t.id].tts + 1
    /\ \A t \in tasks :
         (t.reason = "manual" /\ t.pc = "toastTrunc" /\ t \notin tasks')
           => /\ [t EXCEPT !.pc = "tts"] \in tasks'
              /\ req'[t.id].tts = req[t.id].tts + 1

\* C6: voice.speak with an active, enabled session, credential and voice id
\* present starts a pipeline with reason manual (when none is in flight), and a
\* manual pipeline whose message fetch returns an eligible message calls TTS
\* for it, also when its id is the session's last-spoken id; only a throwing
\* fetch ends it without a TTS call.
C6_ManualAlwaysSpeaks ==
    /\ [][C6_Step]_vars
    /\ [](\A i \in Entries :
            req[i].st = "duplicate" => \A t \in tasks : t.reason = "manual" => t.id # i)

\* a manual pipeline has called TTS for the message recorded as last spoken
C6_Witness ==
    \E t \in tasks :
        /\ t.reason = "manual"
        /\ t.pc = "tts"
        /\ t.messageID # NoMessage
        /\ lastSpokenAssistantMessage[t.sessionID] = t.messageID
        /\ req[t.id].tts = 1

C7_Step ==
    \A s \in Sessions, r \in Reasons :
        (Calls(s, r) /\ ~config.enabled)
          => /\ tasks' = tasks
             /\ speaking' = speaking
             /\ pendingSpeak' = pendingSpeak
             /\ pendingId' = pendingId
             /\ started' = started
             /\ idleTts' = idleTts
             /\ req' = Append(req, [st |-> "disabled", queued |-> FALSE,
                                    tts |-> 0, play |-> 0])

\* C7: a speakSession call made while the global enabled flag is false, for
\* either reason, starts no pipeline, leaves the slot as it is and makes no TTS
\* call, then or later.
C7_GlobalOffNeverSpeaks ==
    /\ [][C7_Step]_vars
    /\ [](\A i \in Entries :
            (req[i].st = "disabled" /\ ~req[i].queued)
              => /\ req[i].tts = 0 /\ req[i].play = 0
                 /\ \A t \in tasks : t.id # i
                 /\ \A k \in 1..Len(started) : started[k] # i
                 /\ pendingId # i)

\* with the global flag off a request was dropped while a pipeline was in
\* flight, and the slot stayed empty
C7_Witness ==
    /\ ~config.enabled
    /\ Len(req) >= 2
    /\ req[Len(req)].st = "disabled"
    /\ ~req[Len(req)].queued
    /\ lastSessionID \notin disabledSessions
    /\ Pipelines # {}
    /\ pendingSpeak = NoPending

\* C8 as stated: no pipeline with reason idle calls TTS in a state where the
\* mode is push-to-talk.
C8_NoIdleTtsInPushToTalk ==
    [][\A t \in tasks' :
         (t.reason = "idle" /\ t.pc = "tts" /\ req'[t.id].tts > req[t.id].tts)
           => config.mode # "push-to-talk"]_vars

C9_Step ==
    \A t \in Pipelines :
        Completes(t)
          => /\ pendingSpeak' = NoPending
             /\ pendingId' = 0
             /\ IF pendingSpeak = NoPending
                THEN ~speaking' /\ tasks' = tasks \ {t}
                ELSE /\ req'[pendingId].st \in {"running", "disabled", "configError"}
                     /\ speaking' <=> (req'[pendingId].st = "running")
                     /\ speaking' => SlotStarted

\* C9: however a pipeline ends (spoken, no eligible message, duplicate idle
\* message, fetch, TTS or playback failure), its last step clears the slot and
\* either runs the request that was in it or leaves the arbitrator Idle;
\* state.speaking is true exactly while a pipeline is in flight.
C9_FinallyRestoresArbitrator ==
    /\ [][C9_Step]_vars
    /\ [](speaking <=> Pipelines # {})
    /\ [](Cardinality(Pipelines) <= 1)

\* pipelines have ended spoken, as a duplicate and with a failure, and the
\* arbitrator is Idle
C9_Witness ==
    /\ {"spoken", "duplicate", "failed"} \subseteq {req[i].st : i \in Entries}
    /\ ~speaking
    /\ pendingSpeak = NoPending
    /\ tasks = {}

\* C10: pipelines start in the order in which their requests were accepted:
\* the entries of the started pipelines are strictly increasing, and a request
\* is started at most once.
C10_StartedInArrivalOrder ==
    /\ \A a \in 1..Len(started), b \in 1..Len(started) :
         a < b => started[a] < started[b]
    /\ \A i \in Entries :
         req[i].st \in {"running"} \cup Outcomes <=> \E k \in 1..Len(started) : started[k] = i

\* three pipelines have started, the second and third after waiting in the slot
C10_Witness ==
    /\ started = << 1, 2, 3 >>
    /\ req[2].queued
    /\ req[3].queued

\* C11 as stated: the player command a pipeline launches is the one of the
\* configuration in effect when the pipeline started, as is the voice id of its
\* TTS call.
C11_PipelineUsesStartSnapshot ==
    \A t \in tasks : t.pc = "play" => t.cmd = t.player

\* C12 as stated: a session that was deleted, and that no event has named and
\* no command has targeted since, has no entry in the disabled set and no
\* last-spoken message id.
C12_DeletedSessionStaysForgotten ==
    \A s \in forgotten :
        /\ s \notin disabledSessions
        /\ lastSpokenAssistantMessage[s] = NoMessage

\* C13 as stated: with an active session, after voice.toggle the session's
\* effective state isEnabledForSession is the negation of what it was, after
\* voice.on it is true and after voice.off it is false, whatever the global
\* enabled flag.
C13_SwitchSetsEffectiveState ==
    [][\A command \in {"voice.on", "voice.off", "voice.toggle"} :
         (VoiceSwitch(command) /\ lastSessionID # NoSession)
           => (isEnabledForSession(lastSessionID))' =
                 CASE command = "voice.on" -> TRUE
                   [] command = "voice.off" -> FALSE
                   [] command = "voice.toggle" -> ~isEnabledForSession(lastSessionID)]_vars

SwitchValue(command, current) ==
    CASE command = "voice.on" -> TRUE
      [] command = "voice.off" -> FALSE
      [] command = "voice.toggle" -> ~current

C14_Step ==
    \A command \in {"voice.on", "voice.off", "voice.toggle"} :
        VoiceSwitch(command)
          => /\ IF lastSessionID = NoSession
                THEN /\ config' = [config EXCEPT
                                     !.enabled = SwitchValue(command, config.enabled)]
                     /\ disabledSessions' = disabledSessions
                ELSE /\ config' = config
                     /\ \A s \in Sessions \ {lastSessionID} :
                          s \in disabledSessions' <=> s \in disabledSessions
                     /\ lastSessionID \in disabledSessions' <=>
                          ~SwitchValue(command, isEnabledForSession(lastSessionID))
             /\ UNCHANGED << configSource, configFingerprint, lastSessionID,
                             lastSpokenAssistantMessage, speaking, pendingSpeak, tasks >>

\* C14: voice.on/off/toggle with no active session change the global enabled
\* flag only (toggle negates it) and leave the disabled set as it is; with an
\* active session they change that session's membership in the disabled set
\* only, and leave the global flag and the other sessions' membership as they are.
C14_SwitchIsScoped == [][C14_Step]_vars

\* the global flag was switched off by a command while no session was active
\* (the file loaded leaves it on), and later the active session was disabled
C14_Witness ==
    /\ loadedFile.config = ProjectFile
    /\ ~config.enabled
    /\ lastSessionID # NoSession
    /\ disabledSessions = {lastSessionID}
    /\ events = 2

\* a step of voice.reload whose load succeeded
AnnouncedReload == VoiceReload /\ notice' # "error"

\* C15 as stated: a successful reload with announce=true emits the "config
\* loaded" notification exactly when the content loaded differs from the
\* content of the previous load, and a reload with announce=false emits none.
C15_AnnouncedIffContentChanged ==
    [][/\ AnnouncedReload => (notice' = "loaded" <=> loadedFile' # loadedFile)
       /\ FileWatcherUpdated => notice' # "loaded"]_vars

\* the fingerprint of what a successful load returned
LoadedFingerprint(loaded) == fingerprint(defaultConfig(loaded.config), loaded.source)

C15_Step ==
    /\ AnnouncedReload
         => /\ notice' = "loaded" <=> LoadedFingerprint(loadedFile') # configFingerprint
            /\ loadedFile' = loadedFile => notice' = "none"
    /\ FileWatcherUpdated => notice' # "loaded"

\* C15 as amended: a successful reload with announce=true emits the "config
\* loaded" notification exactly when the fingerprint of the loaded
\* configuration (source tag and fields after defaults) differs from the one
\* stored by the previous successful load; unchanged content emits none, changed
\* content with an equal fingerprint emits none, announce=false emits none.
C15_AnnouncedIffFingerprintChanged ==
    /\ [][C15_Step]_vars
    /\ [](configFingerprint =
            IF loadedFile = NoFile THEN NoFingerprint ELSE LoadedFingerprint(loadedFile))

\* voice.reload has loaded the project file with `enabled` written out after
\* the one without it, and has announced nothing
C15_Witness ==
    /\ loadedFile = [config |-> ProjectFileExplicit, source |-> "project"]
    /\ notice = "none"
    /\ events >= 1

\* a step of a reload (by command or file watcher) whose read or parse failed
FailedReload ==
    /\ events' = events + 1
    /\ \E announce \in BOOLEAN : reloadConfig(announce, FALSE, NoFile)

\* C16: a reload whose file read or parse fails reports an error and leaves
\* state.config, the source tag and the stored fingerprint as they were; in
\* every state the three belong to the same successful load (the source and
\* fingerprint are its own, and so are the fields of the snapshot that no
\* command writes).
C16_FailedReloadKeepsSnapshot ==
    /\ [][FailedReload
            => /\ notice' = "error"
               /\ UNCHANGED << config, configSource, configFingerprint >>]_vars
    /\ [](IF loadedFile = NoFile
          THEN /\ configSource = "none"
               /\ configFingerprint = NoFingerprint
               /\ config.voiceId = "" /\ config.player = "mpv"
          ELSE /\ configSource = loadedFile.source
               /\ configFingerprint = fingerprint(defaultConfig(loadedFile.config),
                                                  loadedFile.source)
               /\ config.voiceId = defaultConfig(loadedFile.config).voiceId
               /\ config.player = defaultConfig(loadedFile.config).player)

\* a reload has failed after the project file was loaded and the mode was
\* changed by a command: the snapshot still holds both
C16_Witness ==
    /\ notice = "error"
    /\ loadedFile = [config |-> ProjectFile, source |-> "project"]
    /\ config.voiceId = "voice"
    /\ config.mode = "push-to-talk"
    /\ events = 2

\* the newest message of the history that has role assistant and text left
\* after code, tool parts and ignored parts are taken out; NoMessage if none
NewestEligible(list) ==
    LET places == { i \in 1..Len(list) : list[i] \in EligibleMessages }
    IN  IF places = {} THEN NoMessage
        ELSE CHOOSE i \in places : \A k \in places : k <= i

C17_Step ==
    \A t \in tasks :
        (t.pc = "fetch" /\ t \notin tasks')
          => LET found == NewestEligible(messages[t.sessionID])
                 after == { u \in tasks' : u.id = t.id }
             IN  \/ /\ after = { [t EXCEPT !.pc = "toastErr"] }
                    /\ req'[t.id].tts = 0
                 \/ /\ found = NoMessage
                    /\ after = {}
                    /\ req'[t.id] = [req[t.id] EXCEPT !.st = "noMessage"]
                    /\ req'[t.id].tts = 0 /\ req'[t.id].play = 0
                 \/ /\ found # NoMessage
                    /\ t.reason = "idle"
                    /\ lastSpokenAssistantMessage[t.sessionID] = found
                    /\ after = {}
                    /\ req'[t.id].st = "duplicate"
                 \/ /\ found # NoMessage
                    /\ \E u \in after : /\ u.pc \in {"toastTrunc", "tts"}
                                        /\ u.messageID = found

ArbitratorState ==
    IF ~speaking /\ pendingSpeak = NoPending THEN "Idle"
    ELSE IF speaking /\ pendingSpeak = NoPending THEN "Speaking"
    ELSE IF speaking THEN "Speaking+Pending"
    ELSE "PendingOnly"

\* C18: in every state between handlers and suspension points the arbitrator
\* is Idle, Speaking or Speaking+Pending: the slot is populated only while
\* state.speaking is set and a pipeline is in flight, it holds one request,
\* and at most one request of all those delivered is waiting.
C18_ArbitratorStates ==
    /\ ArbitratorState \in {"Idle", "Speaking", "Speaking+Pending"}
    /\ pendingSpeak # NoPending => Pipelines # {}
    /\ pendingSpeak \in {NoPending} \cup [sessionID : Sessions, reason : Reasons]
    /\ (pendingSpeak # NoPending) <=> (pendingId # 0)
    /\ Cardinality({i \in Entries : req[i].st = "pending"}) <= 1
    /\ \A i \in Entries : req[i].st = "pending" <=> pendingId = i

\* Speaking+Pending during a TTS call, after a second request replaced the
\* first in the slot
C18_Witness ==
    /\ ArbitratorState = "Speaking+Pending"
    /\ \E t \in tasks : t.pc = "tts"
    /\ \E i \in Entries : req[i].st = "overwritten"

\* C19 as stated: the arbitrator is Speaking while a configuration error
\* (missing credential or missing voice id) is being reported, so that no
\* other report or pipeline runs beside it.
C19_ConfigErrorInsideSpeaking ==
    \A t \in tasks :
        t.pc \in ConfigErrorPcs
          => /\ speaking
             /\ \A u \in tasks : u = t

\* the pipeline of invocation t ends with success in this step
Succeeds(t) ==
    /\ t.pc = "play"
    /\ req[t.id].tts > 0
    /\ req[t.id].play > 0
    /\ req[t.id].st = "running"
    /\ req'[t.id].st = "spoken"

C20_Frame ==
    /\ \A t \in tasks :
         Succeeds(t) => lastSpokenAssistantMessage'[t.sessionID] = t.messageID
    /\ \A t \in Pipelines :
         (Completes(t) /\ req'[t.id].st # "spoken")
           => lastSpokenAssistantMessage' = lastSpokenAssistantMessage

\* C20 as stated: a session's last-spoken id changes only in the step that
\* ends a pipeline of that session with success, and becomes the id of the
\* message that pipeline spoke.
C20_ChangesOnlyOnSuccess ==
    [][\A s \in Sessions :
         lastSpokenAssistantMessage'[s] # lastSpokenAssistantMessage[s]
           => \E t \in tasks :
                /\ t.sessionID = s
                /\ Succeeds(t)
                /\ t.messageID # NoMessage
                /\ lastSpokenAssistantMessage'[s] = t.messageID]_vars

C20_Step ==
    /\ C20_Frame
    /\ \A s \in Sessions :
         lastSpokenAssistantMessage'[s] # lastSpokenAssistantMessage[s]
           => \/ \E t \in tasks :
                   /\ t.sessionID = s
                   /\ Succeeds(t)
                   /\ t.messageID # NoMessage
                   /\ lastSpokenAssistantMessage'[s] = t.messageID
              \/ /\ SessionDeleted(s)
                 /\ lastSpokenAssistantMessage'[s] = NoMessage

\* C20: a session's last-spoken id changes only in the step that ends a
\* pipeline of that session with success (after its TTS call and its playback),
\* where it becomes the id of the message spoken, or in the handling of
\* session.deleted for that session, which removes it; a pipeline that ends
\* in a silent abort or after a failure leaves every id as it was.
C20_ChangesOnSuccessOrDeletion == [][C20_Step]_vars

\* a pipeline has ended with success and its session has a last-spoken id, and
\* another pipeline has failed after its player started
C20_Witness ==
    /\ \E s \in Sessions : lastSpokenAssistantMessage[s] # NoMessage
    /\ \E i \in Entries : req[i].st = "failed" /\ req[i].play > 0
    /\ \E i \in Entries : req[i].st = "spoken"

C21_Step ==
    \A i \in Entries :
        /\ req'[i].tts > req[i].tts
             => req[i].st = "running" /\ req[i].tts = 0 /\ req[i].play = 0
        /\ req'[i].play > req[i].play
             => req[i].st = "running" /\ req[i].tts = 1 /\ req[i].play = 0
        /\ req[i].st \in Outcomes
             => req'[i] = req[i] /\ \A t \in tasks' : t.id # i

\* C21: a failed TTS call or playback is not retried: a request makes at most
\* one TTS call and starts at most one player, a TTS call or a player start
\* belongs to a running pipeline that made none before, and a request whose
\* pipeline has ended has no invocation left.
C21_FailureNotRetried ==
    /\ [][C21_Step]_vars
    /\ [](\A i \in Entries : req[i].tts <= 1 /\ req[i].play <= 1)

\* a pipeline failed after its TTS call, and a later request made a TTS call
C21_Witness ==
    \E i \in Entries, j \in Entries :
        /\ i < j
        /\ req[i].st = "failed"
        /\ req[i].tts = 1
        /\ req[j].tts = 1

\* the budget of the model leaves room for one more event or command
RoomForEvent == events < MaxEvents /\ Len(req) + events < MaxDeliveries

\* the budget of the model leaves room for one more speakSession call
RoomForRequest == Len(req) < MaxReq /\ Len(req) + events < MaxDeliveries

\* a handler that makes no speakSession call is handled in this step
NonSpeakStep ==
    \/ \E s \in Sessions : MessageUpdated(s) \/ SessionDeleted(s)
    \/ FileWatcherUpdated \/ VoiceReload \/ VoiceStatus
    \/ \E m \in Modes : VoiceMode(m)
    \/ \E c \in {"voice.on", "voice.off", "voice.toggle"} : VoiceSwitch(c)

C22_Step ==
    Pipelines # {}
      => /\ NonSpeakStep
              => /\ UNCHANGED arbVars
                 /\ Pipelines' = Pipelines
                 /\ \A m \in Modes : VoiceMode(m) => config'.mode = m
                 /\ \A s \in Sessions :
                      SessionDeleted(s)
                        => /\ s \notin disabledSessions'
                           /\ lastSpokenAssistantMessage'[s] = NoMessage
                 /\ \A s \in Sessions : MessageUpdated(s) => lastSessionID' = s
         /\ \A s \in Sessions, r \in Reasons :
              (Calls(s, r) /\ isEnabledForSession(s))
                => /\ pendingSpeak' = [sessionID |-> s, reason |-> r]
                   /\ tasks' = tasks
                   /\ speaking' = speaking
                   /\ req'[Len(req')].st = "pending"

\* C22: while a pipeline is suspended, every operation that makes no speak
\* request can be handled at once and its state change is there while the
\* pipeline is still suspended; a speak request handled in that time writes the
\* slot, starts no invocation and leaves the pipeline as it is.
C22_OthersNotBlocked ==
    /\ [][C22_Step]_vars
    /\ []((Pipelines # {} /\ RoomForEvent)
            => /\ \A c \in {"voice.on", "voice.off", "voice.toggle"} :
                    ENABLED VoiceSwitch(c)
               /\ \A m \in Modes : ENABLED VoiceMode(m)
               /\ ENABLED VoiceStatus
               /\ ENABLED VoiceReload
               /\ ENABLED FileWatcherUpdated
               /\ \A s \in Sessions :
                    ENABLED SessionDeleted(s) /\ ENABLED MessageUpdated(s))
    /\ []((Pipelines # {} /\ RoomForRequest /\ lastSessionID # NoSession)
            => ENABLED VoiceSpeak)

\* the session of the pipeline whose player runs was switched off after the
\* pipeline started, and a request waits in the slot
C22_Witness ==
    /\ \E t \in tasks : t.pc = "play" /\ t.sessionID \in disabledSessions
    /\ pendingSpeak # NoPending

C23_Step ==
    \A s \in Sessions, r \in Reasons :
        (Calls(s, r) /\ ~isEnabledForSession(s))
          => /\ UNCHANGED << speaking, pendingSpeak, pendingId, tasks, started,
                            idleTts, lastSpokenAssistantMessage, cfgVars,
                            disabledSessions, envVars >>
             /\ req' = Append(req, NewReq("disabled"))

\* C23: a speak request for a session that is not enabled changes nothing,
\* also while a pipeline is in flight: the slot keeps the request it holds,
\* no invocation and no toast is started, and the configuration, the session
\* policy and the last-spoken ids stay as they are.
C23_DisabledRequestIsNoOp == [][C23_Step]_vars

\* while a pipeline is in flight and a request waits in the slot, a later
\* request for a session that is not enabled was dropped
C23_Witness ==
    /\ speaking
    /\ \E i \in Entries, j \in Entries :
         /\ i < j
         /\ pendingId = i
         /\ req[i].st = "pending"
         /\ req[j].st = "disabled"

\* no invocation is left, state.speaking is false and the slot is empty
Quiescent ==
    /\ ~speaking
    /\ pendingSpeak = NoPending
    /\ tasks = {}

\* C24: with finitely many events delivered and every awaited call returning
\* or throwing in the end, the arbitrator reaches Idle with an empty slot and
\* no invocation left, and stays there: every request that was drained from
\* the slot has ended or was dropped.
C24_EventuallyIdle ==
    <>[](/\ Quiescent
         /\ \A i \in Entries : req[i].st \in Outcomes \cup {"disabled", "configError", "overwritten"})

\* the arbitrator is Idle after a chain of two drained requests: three
\* deliveries, the second replaced in the slot or run, the last one run from
\* the slot to its end
C24_Witness ==
    /\ Quiescent
    /\ Len(req) = MaxReq
    /\ req[MaxReq].queued
    /\ req[MaxReq].st \in Outcomes
    /\ Len(started) >= 2

\* a step of a reload (by command or file watcher) whose load succeeded
SuccessfulReload ==
    /\ VoiceReload \/ FileWatcherUpdated
    /\ notice' # "error"

C25_Step ==
    SuccessfulReload
      => /\ config'.enabled = IF "enabled" \in DOMAIN loadedFile'.config
                              THEN loadedFile'.config.enabled ELSE TRUE
         /\ config'.mode = IF "mode" \in DOMAIN loadedFile'.config
                           THEN loadedFile'.config.mode ELSE "continuous"
         /\ UNCHANGED << disabledSessions, lastSpokenAssistantMessage, lastSessionID,
                         speaking, pendingSpeak, tasks >>

\* C25: a successful reload, by voice.reload or by the file watcher, sets the
\* global enabled flag and the mode to the values of the file loaded, with the
\* defaults (enabled, continuous) for the ones it does not give, whatever the
\* commands made of them since the previous load and whether or not the
\* fingerprint changed; the disabled set, the last-spoken ids, the last-active
\* session, state.speaking, the slot and the invocations stay as they are.
C25_ReloadOverridesRuntime == [][C25_Step]_vars

\* while a pipeline is in flight, a load with the fingerprint unchanged and no
\* toast has replaced a mode or an enabled flag set by a command
C25_Witness ==
    /\ notice = "none"
    /\ replaced.fingerprint = configFingerprint
    /\ \/ replaced.mode # defaultConfig(loadedFile.config).mode
       \/ replaced.enabled # defaultConfig(loadedFile.config).enabled
    /\ config = defaultConfig(loadedFile.config)
    /\ speaking
    /\ tasks # {}

C26_Step ==
    /\ lastSessionID # NoSession => lastSessionID' # NoSession
    /\ \A s \in Sessions :
         (SessionIdle(s) \/ MessageUpdated(s)) => lastSessionID' = s
    /\ lastSessionID' # lastSessionID
         => (SessionIdle(lastSessionID') \/ MessageUpdated(lastSessionID'))
    /\ lastSessionID # NoSession
         => /\ \A c \in {"voice.on", "voice.off", "voice.toggle"} :
                 VoiceSwitch(c)
                   => /\ config'.enabled = config.enabled
                      /\ \A s \in Sessions \ {lastSessionID} :
                           s \in disabledSessions' <=> s \in disabledSessions
            /\ VoiceSpeak
                 => /\ Len(req') = Len(req) + 1
                    /\ \A t \in tasks' \ tasks : t.sessionID = lastSessionID
                    /\ pendingSpeak' # pendingSpeak
                         => pendingSpeak' = [sessionID |-> lastSessionID,
                                             reason |-> "manual"]

\* C26: state.lastSessionID is never cleared and is the session named by the
\* last session.idle or message.updated event, also after session.deleted for
\* it; once it is set, voice.on/off/toggle leave the global enabled flag as it
\* is and write the disabled set for that session only, and voice.speak makes
\* its request for that session.
C26_LastSessionNeverCleared == [][C26_Step]_vars

\* the one session that was named and spoken has been deleted (its last-spoken
\* id is gone) and a voice.off or voice.toggle after that put it in the
\* disabled set again
C26_Witness ==
    /\ Len(req) = 1
    /\ req[1].st = "spoken"
    /\ events = 2
    /\ lastSessionID # NoSession
    /\ lastSessionID \in disabledSessions
    /\ \A s \in Sessions : lastSpokenAssistantMessage[s] = NoMessage

====
